---------------------------- MODULE Spec2Model ----------------------------
(***************************************************************************)
(* Value transforms and descriptor tables of the HeishaMon / Aquarea       *)
(* integration (custom_components/aquarea/definitions.py).                 *)
(*                                                                         *)
(* Python values are records [t, s, n]: t is the Python type, s the text   *)
(* of a str (or the class of a raised exception), n the number of an int,  *)
(* bool (0/1), float (in thousandths) or the length of a list.  A call that *)
(* raises yields the value Raise(class).                                   *)
(***************************************************************************)
EXTENDS Integers, Sequences, FiniteSets, TLC

VARIABLES
  desc,       \* the descriptor the entity was built from: <<table, index>>
  op,         \* the last call made through the descriptor's slots
  payload,    \* the value last handed to the descriptor's `state` slot
  ret,        \* what `state` returned (or raised) for it
  selected,   \* the value last handed to the `state_to_mqtt` slot
  published,  \* what `state_to_mqtt` returned (or raised) for it
  device_info,\* entity.device_info of the entity passed to on_receive
  devices,    \* the device registry: the sequence of device records
  hook        \* bookkeeping of the on_receive invocations

vars == <<desc, op, payload, ret, selected, published, device_info, devices, hook>>

----------------------------------------------------------------------------
\* Bounds of the model.

\* longest free-text payload drawn from Alphabet
MaxLen == 2
\* most device records the registry is allowed to grow to
MaxDevices == 3
\* most consecutive deliveries of one resolved model that are counted
MaxCalls == 3

----------------------------------------------------------------------------
\* Python values.

None == [t |-> "None", s |-> "", n |-> 0]
BoolV(b) == [t |-> "bool", s |-> "", n |-> IF b THEN 1 ELSE 0]
IntV(i) == [t |-> "int", s |-> "", n |-> i]
\* a float, given in thousandths
FloatV(u) == [t |-> "float", s |-> "", n |-> u]
StrV(x) == [t |-> "str", s |-> x, n |-> 0]
\* a JSON array of the given length
ListV(len) == [t |-> "list", s |-> "", n |-> len]
Raise(exc) == [t |-> "raise", s |-> exc, n |-> 0]

Raised(v) == v.t = "raise"

IsNumber(v) == v.t \in {"bool", "int", "float"}

\* the value of a number in thousandths
Milli(v) == IF v.t = "float" THEN v.n ELSE v.n * 1000

\* Python's == : numbers compare by value across bool/int/float, everything
\* else by type and content
PyEq(a, b) ==
  IF IsNumber(a) /\ IsNumber(b) THEN Milli(a) = Milli(b) ELSE a = b

\* Python's truth value of an object
Truthy(v) ==
  CASE v.t = "None" -> FALSE
    [] v.t = "str" -> v.s # ""
    [] OTHER -> v.n # 0

----------------------------------------------------------------------------
\* Text.

Digits == "0123456789"

IsDigit(c) == \E i \in 1..10 : SubSeq(Digits, i, i) = c

DigitVal(c) == (CHOOSE i \in 1..10 : SubSeq(Digits, i, i) = c) - 1

Char(x, i) == SubSeq(x, i, i)

\* str.strip() for the whitespace the model's alphabet has
RECURSIVE Strip(_)
Strip(x) ==
  IF Len(x) = 0 THEN x
  ELSE IF Char(x, 1) = " " THEN Strip(SubSeq(x, 2, Len(x)))
  ELSE IF Char(x, Len(x)) = " " THEN Strip(SubSeq(x, 1, Len(x) - 1))
  ELSE x

\* a non-empty run of digits, single underscores allowed between digits
RECURSIVE IsDigitRun(_)
IsDigitRun(x) ==
  /\ Len(x) > 0
  /\ IsDigit(Char(x, 1))
  /\ \/ Len(x) = 1
     \/ IsDigitRun(SubSeq(x, 2, Len(x)))
     \/ /\ Len(x) > 2
        /\ Char(x, 2) = "_"
        /\ IsDigitRun(SubSeq(x, 3, Len(x)))

\* the number a digit run denotes, acc being the value of the digits read
RECURSIVE DigitRunVal(_, _)
DigitRunVal(x, acc) ==
  IF Len(x) = 0 THEN acc
  ELSE IF Char(x, 1) = "_" THEN DigitRunVal(SubSeq(x, 2, Len(x)), acc)
  ELSE DigitRunVal(SubSeq(x, 2, Len(x)), acc * 10 + DigitVal(Char(x, 1)))

\* str(n) of a natural number
RECURSIVE NatToStr(_)
NatToStr(i) ==
  IF i < 10 THEN Char(Digits, i + 1)
  ELSE NatToStr(i \div 10) \o Char(Digits, (i % 10) + 1)

IntToStr(i) == IF i < 0 THEN "-" \o NatToStr(-i) ELSE NatToStr(i)

\* the three decimals of a float given in thousandths, trailing zeros dropped
RECURSIVE FracToStr(_, _)
FracToStr(u, width) ==
  IF width = 0 \/ u = 0 THEN ""
  ELSE LET unit == 10 ^ (width - 1)
       IN  Char(Digits, (u \div unit) + 1) \o FracToStr(u % unit, width - 1)

FloatToStr(u) ==
  LET a == IF u < 0 THEN -u ELSE u
      frac == FracToStr(a % 1000, 3)
  IN  (IF u < 0 THEN "-" ELSE "") \o NatToStr(a \div 1000) \o "."
        \o (IF frac = "" THEN "0" ELSE frac)

\* str(v), as an f-string formats a value
PyStr(v) ==
  CASE v.t = "str" -> v.s
    [] v.t = "int" -> IntToStr(v.n)
    [] v.t = "float" -> FloatToStr(v.n)
    [] v.t = "bool" -> IF v.n = 1 THEN "True" ELSE "False"
    [] OTHER -> "None"

\* int(x) of a str: surrounding whitespace, a sign, a digit run
IntOfText(x) ==
  LET y == Strip(x)
      signed == Len(y) > 0 /\ Char(y, 1) \in {"+", "-"}
      body == IF signed THEN SubSeq(y, 2, Len(y)) ELSE y
  IN  IF IsDigitRun(body)
      THEN IntV(IF signed /\ Char(y, 1) = "-"
               THEN -DigitRunVal(body, 0) ELSE DigitRunVal(body, 0))
      ELSE Raise("ValueError")

\* the builtin int(v)
PyInt(v) ==
  CASE v.t = "str" -> IntOfText(v.s)
    [] v.t \in {"int", "bool"} -> IntV(v.n)
    [] v.t = "float" -> IntV(IF v.n < 0 THEN -((-v.n) \div 1000)
                                        ELSE v.n \div 1000)
    [] OTHER -> IF Raised(v) THEN v ELSE Raise("TypeError")

\* the position of the first "." of a text, 0 when it has none
RECURSIVE DotAt(_, _)
DotAt(x, i) ==
  IF i > Len(x) THEN 0
  ELSE IF Char(x, i) = "." THEN i
  ELSE DotAt(x, i + 1)

\* the thousandths a run of decimals denotes
RECURSIVE FracVal(_, _)
FracVal(x, unit) ==
  IF Len(x) = 0 \/ unit = 0 THEN 0
  ELSE IF Char(x, 1) = "_" THEN FracVal(SubSeq(x, 2, Len(x)), unit)
  ELSE DigitVal(Char(x, 1)) * unit + FracVal(SubSeq(x, 2, Len(x)), unit \div 10)

\* float(x) of a str: surrounding whitespace, a sign, digits with an
\* optional decimal point
FloatOfText(x) ==
  LET y == Strip(x)
      signed == Len(y) > 0 /\ Char(y, 1) \in {"+", "-"}
      body == IF signed THEN SubSeq(y, 2, Len(y)) ELSE y
      dot == DotAt(body, 1)
      whole == IF dot = 0 THEN body ELSE SubSeq(body, 1, dot - 1)
      frac == IF dot = 0 THEN "" ELSE SubSeq(body, dot + 1, Len(body))
      wellformed == /\ whole = "" \/ IsDigitRun(whole)
                    /\ frac = "" \/ IsDigitRun(frac)
                    /\ whole # "" \/ frac # ""
      mag == (IF whole = "" THEN 0 ELSE DigitRunVal(whole, 0)) * 1000
               + FracVal(frac, 100)
  IN  IF wellformed
      THEN FloatV(IF signed /\ Char(y, 1) = "-" THEN -mag ELSE mag)
      ELSE Raise("ValueError")

\* the builtin float(v)
PyFloat(v) ==
  CASE v.t = "str" -> FloatOfText(v.s)
    [] IsNumber(v) -> FloatV(Milli(v))
    [] OTHER -> IF Raised(v) THEN v ELSE Raise("TypeError")

----------------------------------------------------------------------------
\* json.loads, over the documents the model delivers.

\* the field names the stats documents of the model carry, in document order
StatFields == <<"uptime", "wifi">>

\* the values a field of a stats document takes
FieldValues ==
  {None, IntV(0), IntV(10), IntV(42), IntV(5000), FloatV(0), StrV("x"), ListV(1)}

\* a JSON object: a function from the names of its members to their values
Objects ==
  UNION {[S -> FieldValues] : S \in SUBSET {StatFields[i] : i \in 1..Len(StatFields)}}

\* the JSON text of a value
JsonText(v) ==
  CASE v.t = "None" -> "null"
    [] v.t = "str" -> "\"" \o v.s \o "\""
    [] v.t = "bool" -> IF v.n = 1 THEN "true" ELSE "false"
    [] v.t = "list" -> IF v.n = 0 THEN "[]" ELSE "[0]"
    [] OTHER -> PyStr(v)

\* the members of object o from field i on, comma separated
RECURSIVE MembersText(_, _, _)
MembersText(o, i, first) ==
  IF i > Len(StatFields) THEN ""
  ELSE IF StatFields[i] \notin DOMAIN o THEN MembersText(o, i + 1, first)
  ELSE (IF first THEN "" ELSE ", ")
         \o "\"" \o StatFields[i] \o "\": " \o JsonText(o[StatFields[i]])
         \o MembersText(o, i + 1, FALSE)

\* the JSON document of an object, as json.dumps writes it
ObjectText(o) == "{" \o MembersText(o, 1, TRUE) \o "}"

\* every document of the model with the object it denotes
DocumentObjects == {<<ObjectText(o), o>> : o \in Objects}

Documents == {pair[1] : pair \in DocumentObjects}

\* digits only, at least one
RECURSIVE IsDigitsOnly(_)
IsDigitsOnly(x) ==
  /\ Len(x) > 0
  /\ IsDigit(Char(x, 1))
  /\ Len(x) = 1 \/ IsDigitsOnly(SubSeq(x, 2, Len(x)))

\* the JSON number grammar: -? (0 | [1-9][0-9]*) (. [0-9]+)?
IsJsonNumber(x) ==
  LET body == IF Len(x) > 0 /\ Char(x, 1) = "-" THEN SubSeq(x, 2, Len(x)) ELSE x
      dot == DotAt(body, 1)
      whole == IF dot = 0 THEN body ELSE SubSeq(body, 1, dot - 1)
  IN  /\ IsDigitsOnly(whole)
      /\ Len(whole) = 1 \/ Char(whole, 1) # "0"
      /\ dot = 0 \/ IsDigitsOnly(SubSeq(body, dot + 1, Len(body)))

Dict(size) == [t |-> "dict", s |-> "", n |-> size]

\* json.loads(v): val is the parsed value (or the exception raised), obj the
\* members when the value is an object
JsonLoads(v) ==
  IF v.t # "str" THEN [val |-> Raise("TypeError"), obj |-> << >>]
  ELSE IF v.s \in Documents
  THEN LET o == (CHOOSE pair \in DocumentObjects : pair[1] = v.s)[2]
       IN  [val |-> Dict(Cardinality(DOMAIN o)), obj |-> o]
  ELSE IF IsJsonNumber(Strip(v.s))
  THEN [val |-> IF DotAt(v.s, 1) = 0 THEN PyInt(v) ELSE PyFloat(v), obj |-> << >>]
  ELSE [val |-> Raise("JSONDecodeError"), obj |-> << >>]

----------------------------------------------------------------------------
\* models.py

HEATPUMP_MODELS ==
  << <<"0", "WH-MDC05H3E5">>, <<"1", "WH-MDC07H3E5">> >>

----------------------------------------------------------------------------
\* definitions.py: the value transforms.

OPERATING_MODE_TO_STRING ==
  << <<"0", "Heat only">>,
     <<"2", "Auto(Heat)">>,
     <<"3", "DHW only">>,
     <<"4", "Heat+DWH">>,
     <<"6", "Auto(Heat)+DHW">> >>

\* list(OPERATING_MODE_TO_STRING.values())
OPERATING_MODE_VALUES ==
  [i \in 1..Len(OPERATING_MODE_TO_STRING) |-> OPERATING_MODE_TO_STRING[i][2]]

\* dict.get(key, default) on a dict of str keys and str values, kept as the
\* sequence of its items
DictGet(items, key, default) ==
  IF key.t = "str" /\ \E i \in 1..Len(items) : items[i][1] = key.s
  THEN StrV(items[CHOOSE i \in 1..Len(items) : items[i][1] = key.s][2])
  ELSE default

\* operating_mode_to_state returning the matching name instead of its code
operating_mode_to_state_name(value) ==
  LET IsOption(item) == PyEq(StrV(item[2]), value)
      options == SelectSeq(OPERATING_MODE_TO_STRING, IsOption)
  IN  IF Len(options) = 0 THEN None ELSE StrV(options[1][2])

operating_mode_to_state(value) ==
  LET IsOption(item) == PyEq(StrV(item[2]), value)
      options == SelectSeq(OPERATING_MODE_TO_STRING, IsOption)
  IN  IF Len(options) = 0 THEN None ELSE StrV(options[1][1])

\* read_operating_mode_state without the default of dict.get
read_operating_mode_state_nodefault(value) ==
  DictGet(OPERATING_MODE_TO_STRING, value, None)

read_operating_mode_state(value) ==
  DictGet(OPERATING_MODE_TO_STRING, value,
          StrV("Unknown operating mode value: " \o PyStr(value)))

\* read_power_mode_time without the factor of 30
read_power_mode_time_unscaled(value) == PyInt(value)

read_power_mode_time(value) ==
  LET i == PyInt(value)
  IN  IF Raised(i) THEN i ELSE IntV(i.n * 30)

\* read_threeway_valve with the two positions exchanged
read_threeway_valve_swapped(value) ==
  IF PyEq(value, StrV("0")) THEN StrV("Tank")
  ELSE IF PyEq(value, StrV("1")) THEN StrV("Room")
  ELSE None

read_threeway_valve(value) ==
  IF PyEq(value, StrV("0")) THEN StrV("Room")
  ELSE IF PyEq(value, StrV("1")) THEN StrV("Tank")
  ELSE None

\* bit_to_bool taking every payload but "0" for on
bit_to_bool_nonzero(value) ==
  IF PyEq(value, StrV("0")) THEN BoolV(FALSE) ELSE BoolV(TRUE)

bit_to_bool(value) ==
  IF PyEq(value, StrV("1")) THEN BoolV(TRUE)
  ELSE IF PyEq(value, StrV("0")) THEN BoolV(FALSE)
  ELSE None

\* read_quiet_mode without the label for "0"
read_quiet_mode_unlabelled_off(value) ==
  IF PyEq(value, StrV("4")) THEN StrV("Scheduled")
  ELSE value

read_quiet_mode(value) ==
  IF PyEq(value, StrV("4")) THEN StrV("Scheduled")
  ELSE IF PyEq(value, StrV("0")) THEN StrV("Off")
  ELSE value

\* read_heatpump_model without the default of dict.get
read_heatpump_model_nodefault(value) ==
  DictGet(HEATPUMP_MODELS, value, None)

read_heatpump_model(value) ==
  DictGet(HEATPUMP_MODELS, value, StrV("Unknown model for HeishaMon"))

\* write_quiet_mode without the branch for "Scheduled"
write_quiet_mode_unscheduled(selected_value) ==
  IF PyEq(selected_value, StrV("Off")) THEN IntV(0)
  ELSE PyInt(selected_value)

write_quiet_mode(selected_value) ==
  IF PyEq(selected_value, StrV("Off")) THEN IntV(0)
  ELSE IF PyEq(selected_value, StrV("Scheduled")) THEN IntV(4)
  ELSE PyInt(selected_value)

\* read_stats_json testing the field for None instead of for truth
read_stats_json_notnone(field_name, json_doc) ==
  LET loaded == JsonLoads(json_doc)
      field_value == IF field_name \in DOMAIN loaded.obj
                     THEN loaded.obj[field_name] ELSE None
  IN  IF Raised(loaded.val) THEN loaded.val
      ELSE IF loaded.val.t # "dict" THEN Raise("AttributeError")
      ELSE IF field_value # None THEN PyFloat(field_value)
      ELSE None

read_stats_json(field_name, json_doc) ==
  LET loaded == JsonLoads(json_doc)
      field_value == IF field_name \in DOMAIN loaded.obj
                     THEN loaded.obj[field_name] ELSE None
  IN  IF Raised(loaded.val) THEN loaded.val
      ELSE IF loaded.val.t # "dict" THEN Raise("AttributeError")
      ELSE IF Truthy(field_value) THEN PyFloat(field_value)
      ELSE None

ms_to_secs(value) ==
  IF Raised(value) THEN value
  ELSE IF ~Truthy(value) THEN None
  ELSE IF IsNumber(value) THEN FloatV(Milli(value) \div 1000)
  ELSE Raise("TypeError")

----------------------------------------------------------------------------
\* definitions.py: the descriptor tables.  A `state`, `state_to_mqtt` or
\* `on_receive` slot holds the expression bound to it, << >> when unset.

\* NUMBERS (definitions.py:181-195)
NUMBERS ==
  <<
    [heishamon_topic_id |-> StrV("SET11"), key |-> "panasonic_heat_pump/main/DHW_Target_Temp", command_topic |-> "panasonic_heat_pump/commands/SetDHWTemp", name |-> "DHW Target Temperature", state |-> <<"int">>, state_to_mqtt |-> <<"int">>, native_min_value |-> 48, native_max_value |-> 60]
  >>

\* SELECTS (definitions.py:197-217)
SELECTS ==
  <<
    [heishamon_topic_id |-> StrV("SET3"), key |-> "panasonic_heat_pump/main/Quiet_Mode_Level", command_topic |-> "panasonic_heat_pump/commands/SetQuietMode", name |-> "Aquarea Quiet Mode", state |-> <<"read_quiet_mode">>, state_to_mqtt |-> <<"write_quiet_mode">>, options |-> <<"Off", "1", "2", "3", "Scheduled">>],
    [heishamon_topic_id |-> StrV("SET9"), key |-> "panasonic_heat_pump/main/Operating_Mode_State", command_topic |-> "panasonic_heat_pump/commands/SetOperationMode", name |-> "Aquarea Mode", state |-> <<"read_operating_mode_state">>, state_to_mqtt |-> <<"operating_mode_to_state">>, options |-> OPERATING_MODE_VALUES]
  >>

\* MQTT_SWITCHES with the topic id of TOP2 left in the row copied to SET24
MQTT_SWITCHES_pasted_topic_id ==
  <<
    [heishamon_topic_id |-> StrV("TOP19"), key |-> "panasonic_heat_pump/main/Holiday_Mode_State", command_topic |-> "panasonic_heat_pump/main/Holiday_Mode_State", name |-> "Aquarea Holiday Mode", state |-> <<"bit_to_bool">>],
    [heishamon_topic_id |-> StrV("TOP0"), key |-> "panasonic_heat_pump/main/Heatpump_State", command_topic |-> "panasonic_heat_pump/commands/SetHeatpump", name |-> "Aquarea Main Power", state |-> <<"bit_to_bool">>],
    [heishamon_topic_id |-> StrV("TOP2"), key |-> "panasonic_heat_pump/main/Force_DHW_State", command_topic |-> "panasonic_heat_pump/commands/SetForceDHW", name |-> "Aquarea Force DHW Mode", state |-> <<"bit_to_bool">>],
    [heishamon_topic_id |-> StrV("TOP2"), key |-> "panasonic_heat_pump/main/Main_Schedule_State", command_topic |-> "panasonic_heat_pump/commands/SetMainSchedule", name |-> "Aquarea Main thermosthat schedule", state |-> <<"bit_to_bool">>]
  >>

\* MQTT_SWITCHES (definitions.py:220-253)
MQTT_SWITCHES ==
  <<
    [heishamon_topic_id |-> StrV("TOP19"), key |-> "panasonic_heat_pump/main/Holiday_Mode_State", command_topic |-> "panasonic_heat_pump/main/Holiday_Mode_State", name |-> "Aquarea Holiday Mode", state |-> <<"bit_to_bool">>],
    [heishamon_topic_id |-> StrV("TOP0"), key |-> "panasonic_heat_pump/main/Heatpump_State", command_topic |-> "panasonic_heat_pump/commands/SetHeatpump", name |-> "Aquarea Main Power", state |-> <<"bit_to_bool">>],
    [heishamon_topic_id |-> StrV("TOP2"), key |-> "panasonic_heat_pump/main/Force_DHW_State", command_topic |-> "panasonic_heat_pump/commands/SetForceDHW", name |-> "Aquarea Force DHW Mode", state |-> <<"bit_to_bool">>],
    [heishamon_topic_id |-> StrV("SET24"), key |-> "panasonic_heat_pump/main/Main_Schedule_State", command_topic |-> "panasonic_heat_pump/commands/SetMainSchedule", name |-> "Aquarea Main thermosthat schedule", state |-> <<"bit_to_bool">>]
  >>

\* BINARY_SENSORS with the key of TOP3 pasted into TOP26
BINARY_SENSORS_pasted_key ==
  <<
    [heishamon_topic_id |-> StrV("TOP3"), key |-> "panasonic_heat_pump/main/Quiet_Mode_Schedule", name |-> "Aquarea Quiet Mode Schedule", state |-> <<"bit_to_bool">>],
    [heishamon_topic_id |-> StrV("TOP26"), key |-> "panasonic_heat_pump/main/Quiet_Mode_Schedule", name |-> "Aquarea Defrost State", state |-> <<"bit_to_bool">>],
    [heishamon_topic_id |-> StrV("TOP58"), key |-> "panasonic_heat_pump/main/DHW_Heater_State", name |-> "Aquarea Tank Heater Enabled", state |-> <<"bit_to_bool">>],
    [heishamon_topic_id |-> StrV("TOP59"), key |-> "panasonic_heat_pump/main/Room_Heater_State", name |-> "Aquarea Room Heater Enabled", state |-> <<"bit_to_bool">>],
    [heishamon_topic_id |-> StrV("TOP60"), key |-> "panasonic_heat_pump/main/Internal_Heater_State", name |-> "Aquarea Internal Heater State", state |-> <<"bit_to_bool">>],
    [heishamon_topic_id |-> StrV("TOP61"), key |-> "panasonic_heat_pump/main/External_Heater_State", name |-> "Aquarea External Heater State", state |-> <<"bit_to_bool">>]
  >>

\* BINARY_SENSORS (definitions.py:255-297)
BINARY_SENSORS ==
  <<
    [heishamon_topic_id |-> StrV("TOP3"), key |-> "panasonic_heat_pump/main/Quiet_Mode_Schedule", name |-> "Aquarea Quiet Mode Schedule", state |-> <<"bit_to_bool">>],
    [heishamon_topic_id |-> StrV("TOP26"), key |-> "panasonic_heat_pump/main/Defrosting_State", name |-> "Aquarea Defrost State", state |-> <<"bit_to_bool">>],
    [heishamon_topic_id |-> StrV("TOP58"), key |-> "panasonic_heat_pump/main/DHW_Heater_State", name |-> "Aquarea Tank Heater Enabled", state |-> <<"bit_to_bool">>],
    [heishamon_topic_id |-> StrV("TOP59"), key |-> "panasonic_heat_pump/main/Room_Heater_State", name |-> "Aquarea Room Heater Enabled", state |-> <<"bit_to_bool">>],
    [heishamon_topic_id |-> StrV("TOP60"), key |-> "panasonic_heat_pump/main/Internal_Heater_State", name |-> "Aquarea Internal Heater State", state |-> <<"bit_to_bool">>],
    [heishamon_topic_id |-> StrV("TOP61"), key |-> "panasonic_heat_pump/main/External_Heater_State", name |-> "Aquarea External Heater State", state |-> <<"bit_to_bool">>]
  >>

\* SENSORS (definitions.py:327-874)
SENSORS ==
  <<
    [heishamon_topic_id |-> StrV("TOP1"), key |-> "panasonic_heat_pump/main/Pump_Flow", name |-> "Aquarea Pump Flow", state |-> << >>, on_receive |-> << >>],
    [heishamon_topic_id |-> StrV("TOP4"), key |-> "panasonic_heat_pump/main/Operating_Mode_State", name |-> "Aquarea Mode", state |-> <<"read_operating_mode_state">>, on_receive |-> << >>],
    [heishamon_topic_id |-> StrV("TOP5"), key |-> "panasonic_heat_pump/main/Main_Inlet_Temp", name |-> "Aquarea Inlet Temperature", state |-> << >>, on_receive |-> << >>],
    [heishamon_topic_id |-> StrV("TOP6"), key |-> "panasonic_heat_pump/main/Main_Outlet_Temp", name |-> "Aquarea Outlet Temperature", state |-> << >>, on_receive |-> << >>],
    [heishamon_topic_id |-> StrV("TOP7"), key |-> "panasonic_heat_pump/main/Main_Target_Temp", name |-> "Aquarea Outlet Target Temperature", state |-> << >>, on_receive |-> << >>],
    [heishamon_topic_id |-> StrV("TOP8"), key |-> "panasonic_heat_pump/main/Compressor_Freq", name |-> "Aquarea Compressor Frequency", state |-> << >>, on_receive |-> << >>],
    [heishamon_topic_id |-> StrV("TOP9"), key |-> "panasonic_heat_pump/main/DHW_Target_Temp", name |-> "Aquarea Tank Set Temperature", state |-> << >>, on_receive |-> << >>],
    [heishamon_topic_id |-> StrV("TOP10"), key |-> "panasonic_heat_pump/main/DHW_Temp", name |-> "Aquarea Tank Actual Tank Temperature", state |-> << >>, on_receive |-> << >>],
    [heishamon_topic_id |-> StrV("TOP11"), key |-> "panasonic_heat_pump/main/Operations_Hours", name |-> "Aquarea Compressor Operating Hours", state |-> << >>, on_receive |-> << >>],
    [heishamon_topic_id |-> StrV("TOP12"), key |-> "panasonic_heat_pump/main/Operations_Counter", name |-> "Aquarea Compressor Start/Stop Counter", state |-> << >>, on_receive |-> << >>],
    [heishamon_topic_id |-> StrV("TOP14"), key |-> "panasonic_heat_pump/main/Outside_Temp", name |-> "Aquarea Outdoor Ambient", state |-> << >>, on_receive |-> << >>],
    [heishamon_topic_id |-> StrV("TOP15"), key |-> "panasonic_heat_pump/main/Heat_Energy_Production", name |-> "Aquarea Power Produced", state |-> << >>, on_receive |-> << >>],
    [heishamon_topic_id |-> StrV("TOP16"), key |-> "panasonic_heat_pump/main/Heat_Energy_Consumption", name |-> "Aquarea Power Consumed", state |-> << >>, on_receive |-> << >>],
    [heishamon_topic_id |-> StrV("TOP17"), key |-> "panasonic_heat_pump/main/Powerful_Mode_Time", name |-> "Aquarea Powerful Mode", state |-> <<"read_power_mode_time">>, on_receive |-> << >>],
    [heishamon_topic_id |-> StrV("TOP20"), key |-> "panasonic_heat_pump/main/ThreeWay_Valve_State", name |-> "Aquarea 3-way Valve", state |-> <<"read_threeway_valve">>, on_receive |-> << >>],
    [heishamon_topic_id |-> StrV("TOP21"), key |-> "panasonic_heat_pump/main/Outside_Pipe_Temp", name |-> "Aquarea Outdoor Pipe Temperature", state |-> << >>, on_receive |-> << >>],
    [heishamon_topic_id |-> StrV("TOP22"), key |-> "panasonic_heat_pump/main/DHW_Heat_Delta", name |-> "Aquarea DHW heating delta", state |-> << >>, on_receive |-> << >>],
    [heishamon_topic_id |-> StrV("TOP23"), key |-> "panasonic_heat_pump/main/Heat_Delta", name |-> "Aquarea Heat delta", state |-> << >>, on_receive |-> << >>],
    [heishamon_topic_id |-> StrV("TOP24"), key |-> "panasonic_heat_pump/main/Cool_Delta", name |-> "Aquarea Cool delta", state |-> << >>, on_receive |-> << >>],
    [heishamon_topic_id |-> StrV("TOP25"), key |-> "panasonic_heat_pump/main/DHW_Holiday_Shift_Temp", name |-> "Aquarea DHW Holiday shift temperature", state |-> << >>, on_receive |-> << >>],
    [heishamon_topic_id |-> StrV("TOP27"), key |-> "panasonic_heat_pump/main/Z1_Heat_Request_Temp", name |-> "Aquarea Zone 1 Heat Requested shift", state |-> << >>, on_receive |-> << >>],
    [heishamon_topic_id |-> StrV("TOP28"), key |-> "panasonic_heat_pump/main/Z1_Cool_Request_Temp", name |-> "Aquarea Zone 1 Cool Requested shift", state |-> << >>, on_receive |-> << >>],
    [heishamon_topic_id |-> StrV("TOP29"), key |-> "panasonic_heat_pump/main/Z1_Heat_Curve_Target_High_Temp", name |-> "Aquarea Zone 1 Target temperature at lowest point on heating curve", state |-> << >>, on_receive |-> << >>],
    [heishamon_topic_id |-> StrV("TOP30"), key |-> "panasonic_heat_pump/main/Z1_Heat_Curve_Target_Low_Temp", name |-> "Aquarea Zone 1 Target temperature at highest point on heating curve", state |-> << >>, on_receive |-> << >>],
    [heishamon_topic_id |-> StrV("TOP31"), key |-> "panasonic_heat_pump/main/Z1_Heat_Curve_Outside_High_Temp", name |-> "Aquarea Zone 1 Lowest outside temperature on the heating curve", state |-> << >>, on_receive |-> << >>],
    [heishamon_topic_id |-> StrV("TOP32"), key |-> "panasonic_heat_pump/main/Z1_Heat_Curve_Outside_Low_Temp", name |-> "Aquarea Zone 1 Highest outside temperature on the heating curve", state |-> << >>, on_receive |-> << >>],
    [heishamon_topic_id |-> StrV("TOP33"), key |-> "panasonic_heat_pump/main/Room_Thermostat_Temp", name |-> "Aquarea Remote control thermosthat temperature", state |-> << >>, on_receive |-> << >>],
    [heishamon_topic_id |-> StrV("TOP34"), key |-> "panasonic_heat_pump/main/Z2_Heat_Request_Temp", name |-> "Aquarea Zone 2 Heat Requested shift", state |-> << >>, on_receive |-> << >>],
    [heishamon_topic_id |-> StrV("TOP35"), key |-> "panasonic_heat_pump/main/Z2_Cool_Request_Temp", name |-> "Aquarea Zone 2 Cool Requested shift", state |-> << >>, on_receive |-> << >>],
    [heishamon_topic_id |-> StrV("TOP36"), key |-> "panasonic_heat_pump/main/Z1_Water_Temp", name |-> "Aquarea Zone 1 water outlet temperature", state |-> << >>, on_receive |-> << >>],
    [heishamon_topic_id |-> StrV("TOP37"), key |-> "panasonic_heat_pump/main/Z2_Water_Temp", name |-> "Aquarea Zone 2 water outlet temperature", state |-> << >>, on_receive |-> << >>],
    [heishamon_topic_id |-> StrV("TOP38"), key |-> "panasonic_heat_pump/main/Cool_Energy_Production", name |-> "Aquarea Thermal Cooling power production", state |-> << >>, on_receive |-> << >>],
    [heishamon_topic_id |-> StrV("TOP39"), key |-> "panasonic_heat_pump/main/Cool_Energy_Consumption", name |-> "Aquarea Thermal Cooling power consumption", state |-> << >>, on_receive |-> << >>],
    [heishamon_topic_id |-> StrV("TOP40"), key |-> "panasonic_heat_pump/main/DHW_Energy_Production", name |-> "Aquarea DHW Power Produced", state |-> << >>, on_receive |-> << >>],
    [heishamon_topic_id |-> StrV("TOP41"), key |-> "panasonic_heat_pump/main/DHW_Energy_Consumption", name |-> "Aquarea DHW Power Consumed", state |-> << >>, on_receive |-> << >>],
    [heishamon_topic_id |-> StrV("TOP42"), key |-> "panasonic_heat_pump/main/Z1_Water_Target_Temp", name |-> "Aquarea Zone 1 water target temperature", state |-> << >>, on_receive |-> << >>],
    [heishamon_topic_id |-> StrV("TOP43"), key |-> "panasonic_heat_pump/main/Z2_Water_Target_Temp", name |-> "Aquarea Zone 2 water target temperature", state |-> << >>, on_receive |-> << >>],
    [heishamon_topic_id |-> StrV("TOP44"), key |-> "panasonic_heat_pump/main/Error", name |-> "Aquarea Last Error", state |-> << >>, on_receive |-> << >>],
    [heishamon_topic_id |-> StrV("TOP45"), key |-> "panasonic_heat_pump/main/Room_Holiday_Shift_Temp", name |-> "Aquarea Room heating Holiday shift temperature", state |-> << >>, on_receive |-> << >>],
    [heishamon_topic_id |-> StrV("TOP46"), key |-> "panasonic_heat_pump/main/Buffer_Temp", name |-> "Aquarea Actual Buffer temperature", state |-> << >>, on_receive |-> << >>],
    [heishamon_topic_id |-> StrV("TOP47"), key |-> "panasonic_heat_pump/main/Solar_Temp", name |-> "Aquarea Actual Solar temperature", state |-> << >>, on_receive |-> << >>],
    [heishamon_topic_id |-> StrV("TOP48"), key |-> "panasonic_heat_pump/main/Pool_Temp", name |-> "Aquarea Actual Pool temperature", state |-> << >>, on_receive |-> << >>],
    [heishamon_topic_id |-> StrV("TOP49"), key |-> "panasonic_heat_pump/main/Main_Hex_Outlet_Temp", name |-> "Aquarea Main HEX Outlet Temperature", state |-> << >>, on_receive |-> << >>],
    [heishamon_topic_id |-> StrV("TOP50"), key |-> "panasonic_heat_pump/main/Discharge_Temp", name |-> "Aquarea Discharge Temperature", state |-> << >>, on_receive |-> << >>],
    [heishamon_topic_id |-> StrV("TOP51"), key |-> "panasonic_heat_pump/main/Inside_Pipe_Temp", name |-> "Aquarea Inside Pipe Temperature", state |-> << >>, on_receive |-> << >>],
    [heishamon_topic_id |-> StrV("TOP52"), key |-> "panasonic_heat_pump/main/Defrost_Temp", name |-> "Aquarea Defrost Temperature", state |-> << >>, on_receive |-> << >>],
    [heishamon_topic_id |-> StrV("TOP53"), key |-> "panasonic_heat_pump/main/Eva_Outlet_Temp", name |-> "Aquarea Eva Outlet Temperature", state |-> << >>, on_receive |-> << >>],
    [heishamon_topic_id |-> StrV("TOP54"), key |-> "panasonic_heat_pump/main/Bypass_Outlet_Temp", name |-> "Aquarea Bypass Outlet Temperature", state |-> << >>, on_receive |-> << >>],
    [heishamon_topic_id |-> StrV("TOP55"), key |-> "panasonic_heat_pump/main/Ipm_Temp", name |-> "Aquarea Ipm Temperature", state |-> << >>, on_receive |-> << >>],
    [heishamon_topic_id |-> StrV("TOP56"), key |-> "panasonic_heat_pump/main/Z1_Temp", name |-> "Aquarea Zone1: Actual Temperature", state |-> << >>, on_receive |-> << >>],
    [heishamon_topic_id |-> StrV("TOP57"), key |-> "panasonic_heat_pump/main/Z2_Temp", name |-> "Aquarea Zone1: Actual Temperature", state |-> << >>, on_receive |-> << >>],
    [heishamon_topic_id |-> StrV("TOP62"), key |-> "panasonic_heat_pump/main/Fan1_Motor_Speed", name |-> "Aquarea Fan 1 Speed", state |-> << >>, on_receive |-> << >>],
    [heishamon_topic_id |-> StrV("TOP63"), key |-> "panasonic_heat_pump/main/Fan2_Motor_Speed", name |-> "Aquarea Fan 2 Speed", state |-> << >>, on_receive |-> << >>],
    [heishamon_topic_id |-> StrV("TOP64"), key |-> "panasonic_heat_pump/main/High_Pressure", name |-> "Aquarea High pressure", state |-> << >>, on_receive |-> << >>],
    [heishamon_topic_id |-> StrV("TOP65"), key |-> "panasonic_heat_pump/main/Pump_Speed", name |-> "Aquarea Pump Speed", state |-> << >>, on_receive |-> << >>],
    [heishamon_topic_id |-> StrV("TOP66"), key |-> "panasonic_heat_pump/main/Low_Pressure", name |-> "Aquarea Low Pressure", state |-> << >>, on_receive |-> << >>],
    [heishamon_topic_id |-> StrV("TOP67"), key |-> "panasonic_heat_pump/main/Compressor_Current", name |-> "Aquarea Compressor Current", state |-> << >>, on_receive |-> << >>],
    [heishamon_topic_id |-> StrV("TOP92"), key |-> "panasonic_heat_pump/main/Heat_Pump_Model", name |-> "Aquarea Heatpump model", state |-> <<"read_heatpump_model">>, on_receive |-> <<"update_device_model">>],
    [heishamon_topic_id |-> StrV("STAT1_rssi"), key |-> "panasonic_heat_pump/stats", name |-> "HeishaMon RSSI", state |-> <<"partial", "read_stats_json", "wifi">>, on_receive |-> << >>],
    [heishamon_topic_id |-> StrV("STAT1_uptime"), key |-> "panasonic_heat_pump/stats", name |-> "HeishaMon Uptime", state |-> <<"lambda", "ms_to_secs", "read_stats_json", "uptime">>, on_receive |-> << >>],
    [heishamon_topic_id |-> StrV("STAT1_total_reads"), key |-> "panasonic_heat_pump/stats", name |-> "HeishaMon Total reads", state |-> <<"partial", "read_stats_json", "total reads">>, on_receive |-> << >>],
    [heishamon_topic_id |-> StrV("STAT1_good_reads"), key |-> "panasonic_heat_pump/stats", name |-> "HeishaMon Good reads", state |-> <<"partial", "read_stats_json", "good reads">>, on_receive |-> << >>],
    [heishamon_topic_id |-> StrV("STAT1_badcrc_reads"), key |-> "panasonic_heat_pump/stats", name |-> "HeishaMon bad CRC reads", state |-> <<"partial", "read_stats_json", "bad crc reads">>, on_receive |-> << >>],
    [heishamon_topic_id |-> StrV("STAT1_badheader_reads"), key |-> "panasonic_heat_pump/stats", name |-> "HeishaMon bad header reads", state |-> <<"partial", "read_stats_json", "bad header reads">>, on_receive |-> << >>],
    [heishamon_topic_id |-> StrV("STAT1_tooshort_reads"), key |-> "panasonic_heat_pump/stats", name |-> "HeishaMon too short reads", state |-> <<"partial", "read_stats_json", "too short reads">>, on_receive |-> << >>],
    [heishamon_topic_id |-> StrV("STAT1_toolong_reads"), key |-> "panasonic_heat_pump/stats", name |-> "HeishaMon too long reads", state |-> <<"partial", "read_stats_json", "too long reads">>, on_receive |-> << >>],
    [heishamon_topic_id |-> StrV("STAT1_timeout_reads"), key |-> "panasonic_heat_pump/stats", name |-> "HeishaMon timeout reads", state |-> <<"partial", "read_stats_json", "timeout reads">>, on_receive |-> << >>],
    [heishamon_topic_id |-> StrV("STAT1_voltage"), key |-> "panasonic_heat_pump/stats", name |-> "HeishaMon voltage", state |-> <<"partial", "read_stats_json", "voltage">>, on_receive |-> << >>],
    [heishamon_topic_id |-> StrV("STAT1_freememory"), key |-> "panasonic_heat_pump/stats", name |-> "HeishaMon free memory", state |-> <<"partial", "read_stats_json", "free memory">>, on_receive |-> << >>],
    [heishamon_topic_id |-> StrV("STAT1_freeheap"), key |-> "panasonic_heat_pump/stats", name |-> "HeishaMon free heap", state |-> <<"partial", "read_stats_json", "free heap">>, on_receive |-> << >>],
    [heishamon_topic_id |-> StrV("STAT1-mqttreconnects"), key |-> "panasonic_heat_pump/stats", name |-> "HeishaMon mqtt reconnects", state |-> <<"partial", "read_stats_json", "mqtt reconnects">>, on_receive |-> << >>]
  >>

TableNames == {"NUMBERS", "SELECTS", "MQTT_SWITCHES", "BINARY_SENSORS", "SENSORS"}

Table(tbl) ==
  CASE tbl = "NUMBERS" -> NUMBERS
    [] tbl = "SELECTS" -> SELECTS
    [] tbl = "MQTT_SWITCHES" -> MQTT_SWITCHES
    [] tbl = "BINARY_SENSORS" -> BINARY_SENSORS
    [] tbl = "SENSORS" -> SENSORS

\* every descriptor, as <<table, index>>
Descriptors ==
  UNION {{<<tbl, i>> : i \in 1..Len(Table(tbl))} : tbl \in TableNames}

Descriptor(d) == Table(d[1])[d[2]]

\* Call with the uptime lambda leaving out ms_to_secs
Call_uptime_in_ms(slot, arg) ==
  CASE slot[1] = "int" -> PyInt(arg)
    [] slot[1] = "bit_to_bool" -> bit_to_bool(arg)
    [] slot[1] = "read_quiet_mode" -> read_quiet_mode(arg)
    [] slot[1] = "write_quiet_mode" -> write_quiet_mode(arg)
    [] slot[1] = "read_operating_mode_state" -> read_operating_mode_state(arg)
    [] slot[1] = "operating_mode_to_state" -> operating_mode_to_state(arg)
    [] slot[1] = "read_power_mode_time" -> read_power_mode_time(arg)
    [] slot[1] = "read_threeway_valve" -> read_threeway_valve(arg)
    [] slot[1] = "read_heatpump_model" -> read_heatpump_model(arg)
    [] slot[1] = "partial" -> read_stats_json(slot[3], arg)
    [] slot[1] = "lambda" -> read_stats_json(slot[4], arg)

\* the call of a callable slot on one argument
Call(slot, arg) ==
  CASE slot[1] = "int" -> PyInt(arg)
    [] slot[1] = "bit_to_bool" -> bit_to_bool(arg)
    [] slot[1] = "read_quiet_mode" -> read_quiet_mode(arg)
    [] slot[1] = "write_quiet_mode" -> write_quiet_mode(arg)
    [] slot[1] = "read_operating_mode_state" -> read_operating_mode_state(arg)
    [] slot[1] = "operating_mode_to_state" -> operating_mode_to_state(arg)
    [] slot[1] = "read_power_mode_time" -> read_power_mode_time(arg)
    [] slot[1] = "read_threeway_valve" -> read_threeway_valve(arg)
    [] slot[1] = "read_heatpump_model" -> read_heatpump_model(arg)
    [] slot[1] = "partial" -> read_stats_json(slot[3], arg)
    [] slot[1] = "lambda" -> ms_to_secs(read_stats_json(slot[4], arg))

----------------------------------------------------------------------------
\* The device registry the on_receive hook writes to.

\* entity.device_info: absent, without identifiers, or with identifiers
DeviceInfos ==
  { [present |-> FALSE, has_identifiers |-> FALSE, identifiers |-> {}],
    [present |-> TRUE, has_identifiers |-> FALSE, identifiers |-> {}],
    [present |-> TRUE, has_identifiers |-> TRUE, identifiers |-> {"aquarea"}] }

ConfigEntryIds == {"entry_1"}

\* the identifiers argument None
NoIdentifiers == [given |-> FALSE, ids |-> {}]

\* DeviceRegistry.async_get_or_create: the outcomes of the call, each the
\* registry afterwards and whether the call raised.  A device is found by an
\* identifier it shares with the call; a call without identifiers finds no
\* device, and then a record is created or the call is rejected.
async_get_or_create(registry, config_entry_id, identifiers, model) ==
  LET ids == IF identifiers.given THEN identifiers.ids ELSE {}
      Matches(i) == registry[i].identifiers \cap ids # {}
      created == [identifiers |-> ids, config_entries |-> {config_entry_id},
                  model |-> model]
  IN  IF \E i \in 1..Len(registry) : Matches(i)
      THEN LET at == CHOOSE i \in 1..Len(registry) : Matches(i)
           IN  { [devices |-> [registry EXCEPT
                                 ![at].model = model,
                                 ![at].config_entries = @ \cup {config_entry_id}],
                  raised |-> FALSE] }
      ELSE IF ids = {}
      THEN { [devices |-> Append(registry, created), raised |-> FALSE],
             [devices |-> registry, raised |-> TRUE] }
      ELSE { [devices |-> Append(registry, created), raised |-> FALSE] }

update_device_model(registry, entity_device_info, config_entry_id, model) ==
  LET identifiers ==
        IF entity_device_info.present /\ entity_device_info.has_identifiers
        THEN [given |-> TRUE, ids |-> entity_device_info.identifiers]
        ELSE NoIdentifiers
  IN  async_get_or_create(registry, config_entry_id, identifiers, model)

----------------------------------------------------------------------------
\* The payloads and commands the model delivers.

Alphabet == {"0", "1", "a", "-", " "}

\* the texts over Alphabet of at most k characters
RECURSIVE Texts(_)
Texts(k) ==
  IF k = 0 THEN {""}
  ELSE LET shorter == Texts(k - 1)
       IN  shorter \cup {x \o c : x \in shorter, c \in Alphabet}

\* the single-digit codes of the operating-mode and quiet-mode topics
Codes == {"0", "1", "2", "3", "4", "5", "6", "7", "8"}

IsStatsSlot(slot) == slot # << >> /\ slot[1] \in {"partial", "lambda"}

\* the payloads delivered to a descriptor
PayloadsOf(d) ==
  IF IsStatsSlot(Descriptor(d).state) THEN Texts(MaxLen) \cup Documents
  ELSE IF Descriptor(d).state = <<"read_heatpump_model">> THEN Texts(1) \cup Codes
  ELSE Texts(MaxLen) \cup Codes

\* the descriptors with a `state` function
Decoders == {d \in Descriptors : Descriptor(d).state # << >>}

\* the descriptors with a `state_to_mqtt` function
Encoders == {d \in Descriptors : d[1] \in {"NUMBERS", "SELECTS"}}

\* the descriptors with an `on_receive` hook
Hooked == {d \in Descriptors : d[1] = "SENSORS" /\ Descriptor(d).on_receive # << >>}

\* the values a command hands to state_to_mqtt: the declared domain of the
\* entity and values outside it
CommandsOf(d) ==
  IF d[1] = "SELECTS"
  THEN {StrV(Descriptor(d).options[i]) : i \in 1..Len(Descriptor(d).options)}
         \cup {StrV(x) : x \in Texts(MaxLen)} \cup {StrV("Eco")}
  ELSE {IntV(i) : i \in (Descriptor(d).native_min_value - 1)
                        ..(Descriptor(d).native_max_value + 1)}
         \cup {FloatV(Descriptor(d).native_min_value * 1000 + 500)}

\* the descriptors whose `state` passes its value through ms_to_secs
Converters ==
  {d \in Decoders : Len(Descriptor(d).state) > 1 /\ Descriptor(d).state[2] = "ms_to_secs"}

\* the values handed to ms_to_secs: None, and ints and floats of milliseconds
MillisecondValues ==
  {None, IntV(0), IntV(1), IntV(1500), IntV(5000), FloatV(0), FloatV(1500000)}

----------------------------------------------------------------------------
\* The entity built from one descriptor, and the calls made through its slots.

Init ==
  /\ desc \in Descriptors
  /\ op = "init"
  /\ payload = None
  /\ ret = None
  /\ selected = None
  /\ published = None
  /\ device_info \in DeviceInfos
  /\ devices = << >>
  /\ hook = [calls |-> 0, model |-> None, raised |-> FALSE]

\* a message arrives: `state` is called on its payload
Decode ==
  /\ desc \in Decoders
  /\ \E p \in PayloadsOf(desc) :
       /\ op' = "state"
       /\ payload' = StrV(p)
       /\ ret' = Call(Descriptor(desc).state, StrV(p))
       /\ selected' = None
       /\ published' = None
       /\ UNCHANGED <<desc, device_info, devices, hook>>

\* a command arrives: `state_to_mqtt` is called on the selected value
Encode ==
  /\ desc \in Encoders
  /\ \E v \in CommandsOf(desc) :
       /\ op' = "state_to_mqtt"
       /\ selected' = v
       /\ published' = Call(Descriptor(desc).state_to_mqtt, v)
       /\ payload' = None
       /\ ret' = None
       /\ UNCHANGED <<desc, device_info, devices, hook>>

\* the decoded state is selected again: state_to_mqtt(state(payload))
EncodeDecoded ==
  /\ desc \in Encoders
  /\ op = "state"
  /\ ~Raised(ret)
  /\ op' = "state_to_mqtt(state)"
  /\ selected' = ret
  /\ published' = Call(Descriptor(desc).state_to_mqtt, ret)
  /\ UNCHANGED <<desc, payload, ret, device_info, devices, hook>>

\* the decoded value is handed to the on_receive hook
OnReceive ==
  /\ desc \in Hooked
  /\ op = "state"
  /\ ~Raised(ret)
  /\ Len(devices) < MaxDevices
  /\ \E config_entry_id \in ConfigEntryIds :
       \E outcome \in update_device_model(devices, device_info, config_entry_id, ret) :
         /\ devices' = outcome.devices
         /\ hook' = [calls |-> IF hook.model = ret /\ hook.calls > 0
                               THEN (IF hook.calls < MaxCalls THEN hook.calls + 1
                                     ELSE MaxCalls)
                               ELSE 1,
                     model |-> ret,
                     raised |-> IF hook.model = ret /\ hook.calls > 0
                                THEN hook.raised \/ outcome.raised
                                ELSE outcome.raised]
  /\ op' = "on_receive"
  /\ UNCHANGED <<desc, payload, ret, selected, published, device_info>>

\* the encoded value is decoded as returned: state(state_to_mqtt(selected))
DecodeEncoded ==
  /\ desc \in Encoders
  /\ op = "state_to_mqtt"
  /\ ~Raised(published)
  /\ op' = "state(state_to_mqtt)"
  /\ payload' = published
  /\ ret' = Call(Descriptor(desc).state, published)
  /\ UNCHANGED <<desc, selected, published, device_info, devices, hook>>

\* the encoded value comes back as the text it is published as:
\* state(str(state_to_mqtt(selected)))
DecodePublished ==
  /\ desc \in Encoders
  /\ op = "state_to_mqtt"
  /\ ~Raised(published)
  /\ published # None
  /\ op' = "state(str(state_to_mqtt))"
  /\ payload' = StrV(PyStr(published))
  /\ ret' = Call(Descriptor(desc).state, StrV(PyStr(published)))
  /\ UNCHANGED <<desc, selected, published, device_info, devices, hook>>

\* ms_to_secs is called on a number of milliseconds, or on None
Convert ==
  /\ desc \in Converters
  /\ \E v \in MillisecondValues :
       /\ op' = "ms_to_secs"
       /\ payload' = v
       /\ ret' = ms_to_secs(v)
       /\ selected' = None
       /\ published' = None
       /\ UNCHANGED <<desc, device_info, devices, hook>>

Next ==
  \/ Decode \/ Encode \/ EncodeDecoded \/ OnReceive
  \/ DecodeEncoded \/ DecodePublished \/ Convert

Spec == Init /\ [][Next]_vars

----------------------------------------------------------------------------
\* Properties.

\* the descriptor of a table with the given heishamon_topic_id
Lookup(tbl, topic_id) ==
  CHOOSE d \in Descriptors :
    d[1] = tbl /\ Descriptor(d).heishamon_topic_id = StrV(topic_id)

StateSlot == Descriptor(desc).state

\* the codes OPERATING_MODE_TO_STRING maps
SupportedModes == {"0", "2", "3", "4", "6"}

QuietCodes == {"0", "1", "2", "3", "4"}

\* C1: every function bound to a `state` slot is total: whatever the payload,
\* it returns a value or None and never raises.
C1_StateNeverRaises == op = "state" => ~Raised(ret)

\* C2 as claimed: for every raw quiet-mode code, write_quiet_mode of
\* read_quiet_mode of the code equals the code string.
C2_QuietRoundTripIsCodeString ==
  (/\ op = "state_to_mqtt(state)"
   /\ desc = Lookup("SELECTS", "SET3")
   /\ payload.s \in QuietCodes)
  => PyEq(published, payload)

\* C2 as amended: for every raw quiet-mode code, write_quiet_mode of
\* read_quiet_mode of the code is the int whose decimal text is the code.
C2_QuietRoundTripIsCodeInt ==
  (/\ op = "state_to_mqtt(state)"
   /\ desc = Lookup("SELECTS", "SET3")
   /\ payload.s \in QuietCodes)
  => published.t = "int" /\ PyStr(published) = payload.s

C2_Witness ==
  /\ op = "state_to_mqtt(state)"
  /\ desc = Lookup("SELECTS", "SET3")
  /\ payload = StrV("4")
  /\ selected = StrV("Scheduled")
  /\ published = IntV(4)

\* C3: for every supported operating-mode code, operating_mode_to_state of
\* read_operating_mode_state of the code is the code.
C3_OperatingModeRoundTrip ==
  (/\ op = "state_to_mqtt(state)"
   /\ desc = Lookup("SELECTS", "SET9")
   /\ payload.s \in SupportedModes)
  => published = payload

C3_Witness ==
  /\ op = "state_to_mqtt(state)"
  /\ desc = Lookup("SELECTS", "SET9")
  /\ payload = StrV("6")
  /\ selected = StrV("Auto(Heat)+DHW")
  /\ published = StrV("6")

\* C4: for every payload outside the supported codes,
\* read_operating_mode_state returns the text "Unknown operating mode value: "
\* followed by the payload, never None, and operating_mode_to_state of that
\* text returns None.
C4_UnknownOperatingMode ==
  (/\ StateSlot = <<"read_operating_mode_state">>
   /\ op \in {"state", "state_to_mqtt(state)"}
   /\ payload.s \notin SupportedModes)
  => /\ ret = StrV("Unknown operating mode value: " \o payload.s)
     /\ op = "state_to_mqtt(state)" => published = None

C4_Witness ==
  /\ desc = Lookup("SELECTS", "SET9")
  /\ op = "state_to_mqtt(state)"
  /\ payload = StrV("5")
  /\ selected = StrV("Unknown operating mode value: 5")
  /\ published = None

\* C5: bit_to_bool is True for "1", False for "0" and None for every other
\* payload.
C5_BitToBool ==
  (op = "state" /\ StateSlot = <<"bit_to_bool">>)
  => ret = (IF payload.s = "1" THEN BoolV(TRUE)
            ELSE IF payload.s = "0" THEN BoolV(FALSE)
            ELSE None)

C5_Witness ==
  /\ op = "state"
  /\ desc = Lookup("MQTT_SWITCHES", "TOP0")
  /\ payload = StrV("a")
  /\ ret = None

\* C6 as claimed: read_threeway_valve returns "room" for "0", "tank" for "1"
\* and None, without raising, for every other payload.
C6_ThreeWayValveLowerCase ==
  (op = "state" /\ StateSlot = <<"read_threeway_valve">>)
  => ret = (IF payload.s = "0" THEN StrV("room")
            ELSE IF payload.s = "1" THEN StrV("tank")
            ELSE None)

\* C6 as amended: read_threeway_valve returns "Room" for "0", "Tank" for "1"
\* and None, without raising, for every other payload.
C6_ThreeWayValve ==
  (op = "state" /\ StateSlot = <<"read_threeway_valve">>)
  => ret = (IF payload.s = "0" THEN StrV("Room")
            ELSE IF payload.s = "1" THEN StrV("Tank")
            ELSE None)

C6_Witness ==
  /\ op = "state"
  /\ desc = Lookup("SENSORS", "TOP20")
  /\ payload = StrV("1")
  /\ ret = StrV("Tank")

\* the object a document of the model denotes
ObjectOf(text) == (CHOOSE pair \in DocumentObjects : pair[1] = text)[2]

\* C7: on a JSON object, read_stats_json returns the named field as a float
\* when it is present and a non-zero number, and None when the field is
\* absent or is zero.
C7_StatsJson ==
  (/\ op = "state"
   /\ StateSlot # << >>
   /\ StateSlot[1] = "partial"
   /\ payload.s \in Documents)
  => LET field_name == StateSlot[3]
         o == ObjectOf(payload.s)
     IN  /\ field_name \notin DOMAIN o => ret = None
         /\ (field_name \in DOMAIN o /\ IsNumber(o[field_name]))
              => ret = (IF Milli(o[field_name]) = 0 THEN None
                        ELSE FloatV(Milli(o[field_name])))

C7_Witness ==
  /\ op = "state"
  /\ desc = Lookup("SENSORS", "STAT1_rssi")
  /\ payload = StrV("{\"wifi\": 42}")
  /\ ret = FloatV(42000)

\* C8 as claimed: for every payload that is not a code of HEATPUMP_MODELS,
\* read_heatpump_model returns the literal "unknown model".
C8_UnknownModelLiteral ==
  (/\ op = "state"
   /\ StateSlot = <<"read_heatpump_model">>
   /\ \A i \in 1..Len(HEATPUMP_MODELS) : payload.s # HEATPUMP_MODELS[i][1])
  => ret = StrV("unknown model")

\* C8 as amended: read_heatpump_model returns the name HEATPUMP_MODELS gives
\* a code, and for every payload that is not a code of the table the
\* placeholder "Unknown model for HeishaMon"; it never returns None and never
\* raises.
C8_HeatpumpModel ==
  (op = "state" /\ StateSlot = <<"read_heatpump_model">>)
  => /\ ret.t = "str"
     /\ \A i \in 1..Len(HEATPUMP_MODELS) :
          payload.s = HEATPUMP_MODELS[i][1] => ret.s = HEATPUMP_MODELS[i][2]
     /\ (\A i \in 1..Len(HEATPUMP_MODELS) : payload.s # HEATPUMP_MODELS[i][1])
          => ret.s = "Unknown model for HeishaMon"

C8_Witness ==
  /\ op = "state"
  /\ desc = Lookup("SENSORS", "TOP92")
  /\ payload = StrV("7")
  /\ ret = StrV("Unknown model for HeishaMon")

\* C9: after two or more invocations of update_device_model with the same
\* entity, config entry and model, the registry holds exactly one record with
\* that model and no invocation raised.
C9_HookIdempotent ==
  (op = "on_receive" /\ hook.calls >= 2)
  => /\ ~hook.raised
     /\ Cardinality({i \in 1..Len(devices) : devices[i].model = hook.model}) = 1

Key(d) == Descriptor(d).key

\* C10 as claimed: no two descriptors of the five tables share a key.
C10_KeysUnique ==
  op = "state" => \A e \in Descriptors : e # desc => Key(e) # Key(desc)

\* C10 as amended: a descriptor shares its key with another one only if the
\* two are in different tables or are both SENSORS rows on
\* "panasonic_heat_pump/stats"; the keys shared at all are that one,
\* ".../Operating_Mode_State" (SET9, TOP4) and ".../DHW_Target_Temp" (SET11,
\* TOP9).
C10_KeysSharedOnlyAcrossTablesOrStats ==
  \A e \in Descriptors :
    (e # desc /\ Key(e) = Key(desc))
      => /\ \/ e[1] # desc[1]
            \/ desc[1] = "SENSORS" /\ Key(desc) = "panasonic_heat_pump/stats"
         /\ Key(desc) \in {"panasonic_heat_pump/stats",
                           "panasonic_heat_pump/main/Operating_Mode_State",
                           "panasonic_heat_pump/main/DHW_Target_Temp"}

C10_Witness ==
  /\ op = "state"
  /\ desc = Lookup("SENSORS", "STAT1_rssi")
  /\ Key(Lookup("SENSORS", "STAT1_uptime")) = Key(desc)
  /\ Key(Lookup("SENSORS", "TOP4")) = Key(Lookup("SELECTS", "SET9"))

TopicId(d) == Descriptor(d).heishamon_topic_id

\* C11: within its table a descriptor shares its heishamon_topic_id with no
\* other descriptor, and the heishamon_topic_id is not None.
C11_TopicIdsUniquePerTable ==
  /\ TopicId(desc) # None
  /\ \A e \in Descriptors :
       (e # desc /\ e[1] = desc[1]) => TopicId(e) # TopicId(desc)

C11_Witness ==
  /\ op = "state"
  /\ desc[1] = "MQTT_SWITCHES"
  /\ TopicId(desc) = StrV("SET24")
  /\ Len(Table(desc[1])) > 1

\* the descriptor of a table with the given name
LookupName(tbl, name) ==
  CHOOSE d \in Descriptors : d[1] = tbl /\ Descriptor(d).name = name

StatsExample == StrV("{\"uptime\": 5000, \"wifi\": 10}")

\* C12 as claimed: through the tables, TOP0 decodes "1" to True, TOP20
\* decodes "1" to "tank", and the stats document {"uptime": 5000, "wifi": 10}
\* decodes to 5.0 for "HeishaMon Uptime" and to 10.0 for "HeishaMon RSSI".
C12_EndToEndLowerCase ==
  op = "state" =>
    /\ (desc = Lookup("MQTT_SWITCHES", "TOP0") /\ payload = StrV("1"))
         => ret = BoolV(TRUE)
    /\ (desc = Lookup("SENSORS", "TOP20") /\ payload = StrV("1"))
         => ret = StrV("tank")
    /\ (desc = LookupName("SENSORS", "HeishaMon Uptime") /\ payload = StatsExample)
         => ret = FloatV(5000)
    /\ (desc = LookupName("SENSORS", "HeishaMon RSSI") /\ payload = StatsExample)
         => ret = FloatV(10000)

\* C12 as amended: through the tables, TOP0 decodes "1" to True, TOP20
\* decodes "1" to "Tank", and the stats document {"uptime": 5000, "wifi": 10}
\* decodes to 5.0 for "HeishaMon Uptime" and to 10.0 for "HeishaMon RSSI".
C12_EndToEnd ==
  op = "state" =>
    /\ (desc = Lookup("MQTT_SWITCHES", "TOP0") /\ payload = StrV("1"))
         => ret = BoolV(TRUE)
    /\ (desc = Lookup("SENSORS", "TOP20") /\ payload = StrV("1"))
         => ret = StrV("Tank")
    /\ (desc = LookupName("SENSORS", "HeishaMon Uptime") /\ payload = StatsExample)
         => ret = FloatV(5000)
    /\ (desc = LookupName("SENSORS", "HeishaMon RSSI") /\ payload = StatsExample)
         => ret = FloatV(10000)

C12_Witness ==
  /\ op = "state"
  /\ desc = LookupName("SENSORS", "HeishaMon Uptime")
  /\ TopicId(desc) = StrV("STAT1_uptime")
  /\ payload = StatsExample
  /\ ret = FloatV(5000)

\* C13: ms_to_secs of None is None, and ms_to_secs of a number is the number
\* divided by 1000, as a float.
C13_MsToSecs ==
  op = "ms_to_secs" =>
    ret = (IF payload = None THEN None ELSE FloatV(Milli(payload) \div 1000))

\* C14: for every payload that is the decimal text of an integer n,
\* read_power_mode_time returns n * 30.
C14_PowerModeTime ==
  (op = "state" /\ StateSlot = <<"read_power_mode_time">>)
  => \A i \in (-(10 ^ MaxLen))..(10 ^ MaxLen) :
       payload.s = IntToStr(i) => ret = IntV(i * 30)

C14_Witness ==
  /\ op = "state"
  /\ desc = Lookup("SENSORS", "TOP17")
  /\ payload = StrV("-1")
  /\ ret = IntV(-30)

\* the selected value is in the declared domain of the entity: an option of
\* a select, an integer within the bounds of a number
InDomain(d, v) ==
  IF d[1] = "SELECTS"
  THEN v.t = "str" /\ \E i \in 1..Len(Descriptor(d).options) : Descriptor(d).options[i] = v.s
  ELSE /\ v.t = "int"
       /\ v.n \in Descriptor(d).native_min_value..Descriptor(d).native_max_value

\* C15: state_to_mqtt of a select raises for every value that is not one of
\* the select's options.
C15_EncodeRejectsNonOptions ==
  (op = "state_to_mqtt" /\ desc[1] = "SELECTS" /\ ~InDomain(desc, selected))
  => Raised(published)

\* C16 as claimed: for every value v of the declared domain of a writable
\* descriptor, state of state_to_mqtt(v), fed back as returned, equals v.
C16_DecodeInvertsEncodeAsReturned ==
  (op = "state(state_to_mqtt)" /\ InDomain(desc, selected))
  => PyEq(ret, selected)

\* C16 as amended: for every value v of the declared domain of a writable
\* descriptor, state of the text state_to_mqtt(v) is published as equals v.
C16_DecodeInvertsEncodeAsPublished ==
  (op = "state(str(state_to_mqtt))" /\ InDomain(desc, selected))
  => PyEq(ret, selected)

C16_Witness ==
  /\ op = "state(str(state_to_mqtt))"
  /\ desc = Lookup("SELECTS", "SET3")
  /\ selected = StrV("Off")
  /\ published = IntV(0)
  /\ payload = StrV("0")
  /\ ret = StrV("Off")

\* the descriptors with a command_topic
Writables == {d \in Descriptors : d[1] \in {"NUMBERS", "SELECTS", "MQTT_SWITCHES"}}

CommandTopic(d) == Descriptor(d).command_topic

CommandPrefix == "panasonic_heat_pump/commands/"

\* C17: the command_topic of a writable descriptor differs from its key, lies
\* under "panasonic_heat_pump/commands/", is not the default "void/topic" and
\* is the command_topic of no other writable descriptor.
C17_CommandTopics ==
  (op = "state" /\ desc \in Writables) =>
    /\ CommandTopic(desc) # Key(desc)
    /\ SubSeq(CommandTopic(desc), 1, Len(CommandPrefix)) = CommandPrefix
    /\ CommandTopic(desc) # "void/topic"
    /\ \A e \in Writables : e # desc => CommandTopic(e) # CommandTopic(desc)

=============================================================================
